---- MODULE Spec2Model ----
(***************************************************************************)
(* A model of pieces of the nuclide packages:                              *)
(*   - computeDisplayPaths            (pkg/nuclide-ui/ChangedFilesList.js) *)
(*   - Activation and serverStatusUpdatesToBusyMessages                    *)
(*                                    (pkg/nuclide-flow/lib/main.js)       *)
(*   - RemoteProjectsService          (unnamed/part_000)                   *)
(*   - HgRepositorySubscriptions and the hg commands of HgService, as the  *)
(*     tests at the end of pkg/nuclide-flow/lib/main.js drive them         *)
(*   - the ChangedFilesList component (pkg/nuclide-ui/ChangedFilesList.js) *)
(* Each piece has its own specification (SpecPaths, SpecFlow, SpecRemote,  *)
(* SpecHgConflict, ...); the variables of the other pieces stay at their   *)
(* initial values.                                                         *)
(***************************************************************************)
EXTENDS Integers, Sequences, FiniteSets, TLC

VARIABLES
  \* computeDisplayPaths
  filePaths,      \* the argument: a sequence of paths (a path is a sequence of characters)
  maxDepth,       \* the argument maxDepth
  displayPaths,   \* sequence of [separator, pathParts, depth, done]
  currentDepth,   \* the loop counter
  toProcess,      \* indices into displayPaths (the array shares the objects)
  cdpPc,          \* "idle" | "loop" | "returned"
  cdpResult,      \* the returned array
  \* Activation (nuclide-flow)
  gkPending,      \* the callback given to onceGkInitialized has not fired yet
  lspGate,        \* isGkEnabled('nuclide_flow_lsp')
  disposedFlag,   \* Activation._disposed
  activationPromise,  \* Activation._activationPromise: "null" | "promise"
  activated,      \* the activation function invoked: "none" | "lsp" | "legacy"
  promiseState,   \* state of the promise it returned: "none" | "pending" | "resolved" | "rejected"
  thenWaiting,    \* then-callbacks registered on the pending promise
  microtasks,     \* then-callbacks queued to run
  activationDisposeCalls,  \* calls of dispose() on the activation's UniversalDisposable
  activationDisposed,      \* that UniversalDisposable has been disposed
  disposeCalls,   \* calls of Activation.dispose()
  \* serverStatusUpdatesToBusyMessages
  busySub,        \* the subscription: "none" | "active" | "completed" | "unsubscribed"
  statusLog,      \* the status updates delivered so far, [root, status]
  inner,          \* per root: the message of the current inner observable, 0 for none
  messages,       \* every busySignal.reportBusy call: [root, status, disposed]
  \* consumeFindReferencesView
  frState,        \* registerMultiHopFindReferencesCommand: "none" | "checking" | "registered" | "disabled"
  frDisposed,     \* the disposable consumeFindReferencesView returned has been disposed
  frThenWaiting,  \* then-callbacks registered on its pending promise
  frMicrotasks,   \* then-callbacks queued to run
  commandRegistered,      \* atom.commands holds 'nuclide-flow:find-indirect-references'
  contextMenuRegistered,  \* atom.contextMenu holds the entry of that command
  \* RemoteProjectsService
  subjEvents,     \* ReplaySubject._events: the buffered values
  subjStopped,    \* ReplaySubject.isStopped
  observers,      \* ReplaySubject.observers: the callbacks subscribed
  cbState,        \* per callback: "unregistered" | "subscribed" | "closed" | "disposed"
  invocations,    \* per callback: the project lists it was invoked with
  reloadCalls,    \* the project lists passed to _reloadFinished, in order
  cbRegAfter,     \* per callback: _reloadFinished calls before its registration, -1 unregistered
  cbDisposedAfter,  \* per callback: _reloadFinished calls before its disposal, -1 not disposed
  svcDisposedAfter, \* _reloadFinished calls before the first dispose() of the service, -1 none
  crcPc,          \* createRemoteConnection: "idle" | "reconnecting" | "dialog" | "returned" | "threw"
  crcConfig,      \* its argument remoteProjectConfig
  reconnectArgs,  \* the arguments of each RemoteConnection.reconnect call
  reconnectResult,  \* what reconnect yielded: "none" | "null" | a connection
  dialogOpts,     \* the options of each openConnectionDialog call
  dialogResult,   \* what the dialog yielded: "none" | "null" | a connection
  crcReturn,      \* what createRemoteConnection returned: "none" | "null" | a connection
  \* HgRepositorySubscriptions: the conflict state
  mergeDirectoryExists,  \* the merge directory of the repository exists
  conflictedFiles,  \* some file of the repository has a merge conflict
  isInConflict,   \* HgRepositorySubscriptions._isInConflict
  checks,         \* the calls of _checkConflictChange: [existed, done]
  lastCheck,      \* the call of _checkConflictChange that completed last, 0 for none
  \* HgRepositorySubscriptions: the lock files
  lockEvents,     \* the values passed to _lockFilesDidChange.next, in order
  hgDisposedAt,   \* the number of them emitted before dispose(), -1 while not disposed
  lockObs,        \* per subscriber of observeLockFilesDidChange: [state, since, received]
  \* HgService: fetchMergeConflicts
  hgOutput,       \* the parsed output of the hg command: [command, conflicts]
  mergeConflicts, \* what fetchMergeConflicts yielded: [called, isNull, conflicts]
  \* HgService: commit and amend
  hgCalls,        \* the calls of commit and amend: [op, message, mode]
  hgCommands,     \* the argument lists given to hgObserveExecution, in order
  \* ChangedFilesList
  fileStatuses,   \* props.fileStatuses: its keys, in the order of the map
  hideEmptyFolders,      \* props.hideEmptyFolders
  shouldShowFolderName,  \* props.shouldShowFolderName
  isCollapsed,    \* state.isCollapsed
  visiblePagesCount,     \* state.visiblePagesCount
  rendered,       \* what render() returned last: [suppressed, rows, showMore]
  lastEvent,      \* what led to that render: "mount" | "showMore" | "collapse" | "props"
  propsChanged    \* the component has received new props since it was mounted

pathVars == <<filePaths, maxDepth, displayPaths, currentDepth, toProcess, cdpPc, cdpResult>>

activationVars == <<gkPending, lspGate, disposedFlag, activationPromise, activated,
                    promiseState, thenWaiting, microtasks, activationDisposeCalls,
                    activationDisposed, disposeCalls>>

busyVars == <<busySub, statusLog, inner, messages>>

findRefsVars == <<frState, frDisposed, frThenWaiting, frMicrotasks, commandRegistered,
                  contextMenuRegistered>>

flowVars == <<activationVars, busyVars, findRefsVars>>

reloadVars == <<subjEvents, subjStopped, observers, cbState, invocations, reloadCalls,
                cbRegAfter, cbDisposedAfter, svcDisposedAfter>>

crcVars == <<crcPc, crcConfig, reconnectArgs, reconnectResult, dialogOpts, dialogResult,
             crcReturn>>

remoteVars == <<reloadVars, crcVars>>

hgConflictVars == <<mergeDirectoryExists, conflictedFiles, isInConflict, checks, lastCheck>>

hgLockVars == <<lockEvents, hgDisposedAt, lockObs>>

hgFetchVars == <<hgOutput, mergeConflicts>>

hgCommitVars == <<hgCalls, hgCommands>>

hgVars == <<hgConflictVars, hgLockVars, hgFetchVars, hgCommitVars>>

listVars == <<fileStatuses, hideEmptyFolders, shouldShowFolderName, isCollapsed,
              visiblePagesCount, rendered, lastEvent, propsChanged>>

\* the variables a piece leaves alone
nonPathVars == <<flowVars, remoteVars, hgVars, listVars>>

nonFlowVars == <<pathVars, remoteVars, hgVars, listVars>>

nonRemoteVars == <<pathVars, flowVars, hgVars, listVars>>

nonHgConflictVars == <<pathVars, flowVars, remoteVars, hgLockVars, hgFetchVars, hgCommitVars,
    listVars>>

nonHgLockVars == <<pathVars, flowVars, remoteVars, hgConflictVars, hgFetchVars, hgCommitVars,
    listVars>>

nonHgFetchVars == <<pathVars, flowVars, remoteVars, hgConflictVars, hgLockVars, hgCommitVars,
    listVars>>

nonHgCommitVars == <<pathVars, flowVars, remoteVars, hgConflictVars, hgLockVars, hgFetchVars,
    listVars>>

nonListVars == <<pathVars, flowVars, remoteVars, hgVars>>

vars == <<pathVars, flowVars, remoteVars, hgVars, listVars>>

-----------------------------------------------------------------------------
(* Bounds *)

\* longest argument array
MaxPaths == 4

\* largest explicit maxDepth argument (the default is tried as well)
MaxDepthArg == 3

\* default value of the maxDepth parameter
DefaultMaxDepth == 5

-----------------------------------------------------------------------------
(* Characters and strings.  A string is a sequence of one-character strings. *)

SLASH == "/"

BACKSLASH == "\\"

Min(a, b) == IF a <= b THEN a ELSE b

RECURSIVE Split(_, _)
\* String.prototype.split with a one-character separator
Split(s, sep) ==
  IF s = <<>> THEN << <<>> >>
  ELSE LET rest == Split(Tail(s), sep)
       IN IF Head(s) = sep
            THEN << <<>> >> \o rest
            ELSE << <<Head(s)>> \o Head(rest) >> \o Tail(rest)

RECURSIVE Reverse(_)
\* Array.prototype.reverse
Reverse(seq) ==
  IF seq = <<>> THEN <<>> ELSE Reverse(Tail(seq)) \o <<Head(seq)>>

\* Array.prototype.slice(0, n)
Slice(seq, n) == SubSeq(seq, 1, Min(n, Len(seq)))

RECURSIVE Join(_, _)
\* Array.prototype.join of an array of strings
Join(parts, sep) ==
  IF parts = <<>> THEN <<>>
  ELSE IF Len(parts) = 1 THEN Head(parts)
  ELSE Head(parts) \o <<sep>> \o Join(Tail(parts), sep)

\* does the string contain "://"
HasScheme(s) ==
  \E i \in 1..(Len(s) - 2) : s[i] = ":" /\ s[i + 1] = SLASH /\ s[i + 2] = SLASH

\* nuclideUri.pathSeparatorFor: the separator of the path module chosen for the uri
pathSeparatorFor(uri) ==
  IF Len(uri) >= 1 /\ uri[1] = SLASH THEN SLASH
  ELSE IF HasScheme(uri) THEN SLASH
  ELSE IF Len(uri) >= 3 /\ uri[2] = ":" /\ uri[3] = BACKSLASH THEN BACKSLASH
  ELSE IF Len(Split(uri, BACKSLASH)) > Len(Split(uri, SLASH)) THEN BACKSLASH
  ELSE SLASH

-----------------------------------------------------------------------------
(* The paths the argument arrays are drawn from *)

PathPool ==
  << <<"/", "a", "/", "b">>,                          \*  /a/b
     <<"/", "c", "/", "a", "/", "b">>,                \*  /c/a/b
     <<"/", "b">>,                                    \*  /b
     <<"/", "a", "\\", "b">>,                         \*  /a\b   (a file named a\b)
     <<"c", ":", "\\", "a", "\\", "b">>,              \*  c:\a\b
     <<"c", ":", "\\", "a", "/", "b", "\\", "b">>,    \*  c:\a/b\b
     <<"c", ":", "\\", "b", "\\", "b", "/", "a">>,    \*  c:\b\b/a
     <<"c", ":", "\\", "a", "\\", "b", "/", "a">> >>  \*  c:\a\b/a

PathArrays ==
  UNION { [1..n -> {PathPool[i] : i \in 1..Len(PathPool)}] : n \in 0..MaxPaths }

MaxDepthArgs == (1..MaxDepthArg) \cup {DefaultMaxDepth}

-----------------------------------------------------------------------------
(* The state of a piece that is not running *)

\* computeDisplayPaths has not been called
PathsIdle ==
  /\ filePaths = <<>>
  /\ maxDepth = DefaultMaxDepth
  /\ displayPaths = <<>>
  /\ currentDepth = 1
  /\ toProcess = <<>>
  /\ cdpPc = "idle"
  /\ cdpResult = <<>>

\* the nuclide-flow package is not loaded
FlowIdle ==
  /\ gkPending = FALSE
  /\ lspGate = FALSE
  /\ disposedFlag = FALSE
  /\ activationPromise = "null"
  /\ activated = "none"
  /\ promiseState = "none"
  /\ thenWaiting = 0
  /\ microtasks = 0
  /\ activationDisposeCalls = 0
  /\ activationDisposed = FALSE
  /\ disposeCalls = 0
  /\ busySub = "none"
  /\ statusLog = <<>>
  /\ inner = [r \in {} |-> 0]
  /\ messages = <<>>
  /\ frState = "none"
  /\ frDisposed = FALSE
  /\ frThenWaiting = 0
  /\ frMicrotasks = 0
  /\ commandRegistered = FALSE
  /\ contextMenuRegistered = FALSE

\* no RemoteProjectsService exists
RemoteIdle ==
  /\ subjEvents = <<>>
  /\ subjStopped = FALSE
  /\ observers = {}
  /\ cbState = [c \in {} |-> "unregistered"]
  /\ invocations = [c \in {} |-> <<>>]
  /\ reloadCalls = <<>>
  /\ cbRegAfter = [c \in {} |-> -1]
  /\ cbDisposedAfter = [c \in {} |-> -1]
  /\ svcDisposedAfter = -1
  /\ crcPc = "idle"
  /\ crcConfig = [host |-> "none", path |-> "none", promptReconnectOnFailure |-> "absent"]
  /\ reconnectArgs = <<>>
  /\ reconnectResult = "none"
  /\ dialogOpts = <<>>
  /\ dialogResult = "none"
  /\ crcReturn = "none"

\* no HgRepositorySubscriptions exists
HgConflictIdle ==
  /\ mergeDirectoryExists = FALSE
  /\ conflictedFiles = FALSE
  /\ isInConflict = FALSE
  /\ checks = <<>>
  /\ lastCheck = 0

\* nothing observes the lock files
HgLockIdle ==
  /\ lockEvents = <<>>
  /\ hgDisposedAt = -1
  /\ lockObs = [o \in {} |-> 0]

\* no ChangedFilesList is mounted
ListIdle ==
  /\ fileStatuses = <<>>
  /\ hideEmptyFolders = FALSE
  /\ shouldShowFolderName = FALSE
  /\ isCollapsed = FALSE
  /\ visiblePagesCount = 1
  /\ rendered = [suppressed |-> TRUE, rows |-> <<>>, showMore |-> FALSE]
  /\ lastEvent = "none"
  /\ propsChanged = FALSE

\* fetchMergeConflicts has not been called
HgFetchIdle ==
  /\ hgOutput = [command |-> "null", conflicts |-> <<>>]
  /\ mergeConflicts = [called |-> FALSE, isNull |-> FALSE, conflicts |-> <<>>]

\* nothing was committed or amended
HgCommitIdle ==
  /\ hgCalls = <<>>
  /\ hgCommands = <<>>

\* the Mercurial service is not in use
HgIdle == HgConflictIdle /\ HgLockIdle /\ HgFetchIdle /\ HgCommitIdle

-----------------------------------------------------------------------------
(* computeDisplayPaths *)

\* lines 41-49: one entry per path
InitialDisplayPath(path) ==
  LET separator == pathSeparatorFor(path)
  IN [separator |-> separator,
      pathParts |-> Reverse(Split(path, separator)),
      depth |-> 1,
      done |-> FALSE]

\* lines 57 and 69: the key under which a display path is counted
SeenKey(dp) == Join(Slice(dp.pathParts, dp.depth), SLASH)

\* lines 56-63: the number of times a key is seen among the entries to process
SeenCount(dps, proc, key) ==
  Cardinality({k \in 1..Len(proc) : SeenKey(dps[proc[k]]) = key})

\* mutant: an entry counted twice is taken for unique
MarksDoneLoose(dps, proc, i) ==
  \/ SeenCount(dps, proc, SeenKey(dps[i])) <= 2
  \/ dps[i].depth = Len(dps[i].pathParts)

\* line 71: the entry is finished in this round
MarksDone(dps, proc, i) ==
  \/ SeenCount(dps, proc, SeenKey(dps[i])) = 1
  \/ dps[i].depth = Len(dps[i].pathParts)

\* mutant: a unique entry is extended all the same
StepEntryNoUnique(dps, proc, i) ==
  IF dps[i].depth = Len(dps[i].pathParts)
    THEN [dps[i] EXCEPT !.done = TRUE]
    ELSE [dps[i] EXCEPT !.depth = @ + 1]

\* mutant: an ambiguous entry is extended by two segments
StepEntrySkip(dps, proc, i) ==
  IF MarksDone(dps, proc, i)
    THEN [dps[i] EXCEPT !.done = TRUE]
    ELSE [dps[i] EXCEPT !.depth = @ + 2]

\* lines 67-76: mark done or extend by one segment
StepEntry(dps, proc, i) ==
  IF MarksDone(dps, proc, i)
    THEN [dps[i] EXCEPT !.done = TRUE]
    ELSE [dps[i] EXCEPT !.depth = @ + 1]

\* line 78: Array.prototype.filter keeps the order
RECURSIVE FilterNotDone(_, _)
FilterNotDone(dps, proc) ==
  IF proc = <<>> THEN <<>>
  ELSE IF dps[Head(proc)].done THEN FilterNotDone(dps, Tail(proc))
  ELSE <<Head(proc)>> \o FilterNotDone(dps, Tail(proc))

\* lines 83-88: the display string of an entry at a depth
DisplayAt(dp, d) == Join(Reverse(Slice(dp.pathParts, d)), dp.separator)

\* mutant: the loop runs one round more
LoopConditionInclusive == currentDepth <= maxDepth /\ Len(toProcess) > 0

\* line 54: the loop condition
LoopCondition == currentDepth < maxDepth /\ Len(toProcess) > 0

\* lines 37-53: the call, up to the loop
CdpInit ==
  /\ filePaths \in PathArrays
  /\ maxDepth \in MaxDepthArgs
  /\ displayPaths = [i \in 1..Len(filePaths) |-> InitialDisplayPath(filePaths[i])]
  /\ currentDepth = 1
  /\ toProcess = [i \in 1..Len(filePaths) |-> i]
  /\ cdpPc = "loop"
  /\ cdpResult = <<>>

\* lines 54-81: one iteration of the while loop
Round ==
  /\ cdpPc = "loop"
  /\ LoopCondition
  /\ LET inProc == {toProcess[k] : k \in 1..Len(toProcess)}
         next == [i \in 1..Len(displayPaths) |->
                    IF i \in inProc THEN StepEntry(displayPaths, toProcess, i)
                    ELSE displayPaths[i]]
     IN /\ displayPaths' = next
        /\ toProcess' = FilterNotDone(next, toProcess)
  /\ currentDepth' = currentDepth + 1
  /\ UNCHANGED <<filePaths, maxDepth, cdpPc, cdpResult, nonPathVars>>

\* lines 83-88: the loop has ended, the display strings are returned
Return ==
  /\ cdpPc = "loop"
  /\ ~LoopCondition
  /\ cdpResult' = [i \in 1..Len(displayPaths) |->
                     DisplayAt(displayPaths[i], displayPaths[i].depth)]
  /\ cdpPc' = "returned"
  /\ UNCHANGED <<filePaths, maxDepth, displayPaths, currentDepth, toProcess, nonPathVars>>

PathsNext == Round \/ Return

\* a call of computeDisplayPaths, nothing else running
PathsInit == CdpInit /\ FlowIdle /\ RemoteIdle /\ HgIdle /\ ListIdle

SpecPaths == PathsInit /\ [][PathsNext]_vars

-----------------------------------------------------------------------------
(* Properties of computeDisplayPaths *)

Indices == 1..Len(displayPaths)

Returned == cdpPc = "returned"

\* the number of segments of a string, by a separator
SegmentCount(s, sep) == Len(Split(s, sep))

\* every path of the argument has the same separator
OneSeparator ==
  \A i, j \in Indices : displayPaths[i].separator = displayPaths[j].separator

\* no segment of a path contains the character "/"
SlashFreeSegments ==
  \A i \in Indices : \A k \in 1..Len(displayPaths[i].pathParts) :
    \A c \in 1..Len(displayPaths[i].pathParts[k]) :
      displayPaths[i].pathParts[k][c] # SLASH

\* the display path of entry i reached the depth cap
AtDepthCap(i) == displayPaths[i].depth = maxDepth

\* two different paths got different display paths, or the first is at the cap
DistinctOrCapped ==
  \A i, j \in Indices :
    (i # j /\ filePaths[i] # filePaths[j]) =>
      (cdpResult[i] # cdpResult[j] \/ AtDepthCap(i))

ShorterSuffixShared(i) ==
  LET k == displayPaths[i].depth
  IN \E j \in Indices :
       /\ j # i
       /\ Len(displayPaths[j].pathParts) >= k - 1
       /\ DisplayAt(displayPaths[j], k - 1) = DisplayAt(displayPaths[i], k - 1)

Minimal ==
  \A i \in Indices : displayPaths[i].depth > 1 => ShorterSuffixShared(i)

C3_DepthBounded ==
  /\ \A i \in Indices :
       /\ 1 <= displayPaths[i].depth
       /\ displayPaths[i].depth <= Min(Len(displayPaths[i].pathParts), maxDepth)
  /\ Returned =>
       \A i \in Indices :
         LET sep == displayPaths[i].separator
         IN /\ SegmentCount(cdpResult[i], sep) <= maxDepth
            /\ SegmentCount(cdpResult[i], sep) <= SegmentCount(filePaths[i], sep)

\* a path cut at the cap, shorter than the path itself
C3_Witness ==
  /\ Returned
  /\ \E i \in Indices :
       /\ displayPaths[i].depth = maxDepth
       /\ maxDepth = 2
       /\ Len(displayPaths[i].pathParts) > maxDepth
       /\ ~displayPaths[i].done

\* the index is still being processed
InProcess(i) == \E k \in 1..Len(toProcess) : toProcess[k] = i

\* another entry being processed is counted under the same key
Ambiguous(i) ==
  \E j \in Indices : j # i /\ InProcess(j) /\ SeenKey(displayPaths[j]) = SeenKey(displayPaths[i])

Exhausted(i) == displayPaths[i].depth = Len(displayPaths[i].pathParts)

RECURSIVE MaxLen(_)
MaxLen(dps) ==
  IF dps = <<>> THEN 0
  ELSE LET m == MaxLen(Tail(dps))
       IN IF Len(Head(dps).pathParts) > m THEN Len(Head(dps).pathParts) ELSE m

\* rounds completed so far
Rounds == currentDepth - 1

RoundShape ==
  /\ cdpPc = "loop" => \A i \in Indices : InProcess(i) => displayPaths[i].depth = currentDepth
  /\ \A i \in Indices : InProcess(i) => ~displayPaths[i].done
  /\ Rounds <= Min(maxDepth - 1, MaxLen(displayPaths))

\* a step that is a round of the loop
IsRound == currentDepth' = currentDepth + 1

RoundStep ==
  IF ~IsRound THEN displayPaths' = displayPaths
  ELSE \A i \in Indices :
    /\ (InProcess(i) /\ Ambiguous(i) /\ ~Exhausted(i)) =>
         (displayPaths'[i].depth = displayPaths[i].depth + 1 /\ ~displayPaths'[i].done)
    /\ ~(InProcess(i) /\ Ambiguous(i) /\ ~Exhausted(i)) =>
         displayPaths'[i].depth = displayPaths[i].depth
    /\ displayPaths[i].done => displayPaths'[i] = displayPaths[i]

\* C4: in round r every entry still processed has depth r; an entry that is
\* ambiguous (counted with another entry) and not exhausted is extended by
\* exactly one segment; an entry marked done is never changed again; the loop
\* ends after at most min(maxDepth - 1, longest path's segment count) rounds.
C4_Rounds == [](RoundShape) /\ [][RoundStep]_vars

\* the bound on the rounds is met: three rounds were run
C4_Witness ==
  /\ Returned
  /\ Rounds = 3
  /\ Rounds = Min(maxDepth - 1, MaxLen(displayPaths))
  /\ \E i \in Indices : displayPaths[i].done /\ displayPaths[i].depth = 2

-----------------------------------------------------------------------------
(* nuclide-flow: Activation and serverStatusUpdatesToBusyMessages *)

\* most calls of Activation.dispose() in a run
MaxDisposeCalls == 3

\* most status updates in a run
MaxUpdates == 3

\* project roots of the status updates (pathToRoot)
Roots == {"rootA", "rootB"}

\* values of ServerStatusUpdate.status
Statuses == {"init", "busy", "ready"}

\* mutant: 'init' produces no message
IsBusyStatusBusyOnly(status) == status = "busy"

\* lines 313-316: the statuses that produce a busy message
IsBusyStatus(status) == status = "init" \/ status = "busy"

\* lines 320-323: the wording of the status in the message
ReadableStatus(status) == IF status = "init" THEN "initializing" ELSE "busy"

\* the last status delivered for a root, "none" before the first
RECURSIVE LastStatus(_, _)
LastStatus(log, root) ==
  IF log = <<>> THEN "none"
  ELSE IF log[Len(log)].root = root THEN log[Len(log)].status
  ELSE LastStatus(SubSeq(log, 1, Len(log) - 1), root)

\* mutant: the previous inner observable is not torn down (mergeMap for switchMap)
DisposeNothing(msgs, id) == msgs

\* line 330: the teardown of an inner observable disposes its message
DisposeMessage(msgs, id) ==
  IF id = 0 THEN msgs ELSE [msgs EXCEPT ![id].disposed = TRUE]

\* lines 306-337 at unsubscription or completion: every inner observable is torn down
DisposeAllInner(msgs, inn) ==
  [m \in 1..Len(msgs) |->
     IF \E r \in Roots : inn[r] = m THEN [msgs[m] EXCEPT !.disposed = TRUE] ELSE msgs[m]]

\* mutant: line 82 left out, the promise is kept after dispose()
PromiseKept == activationPromise

\* line 82: this._activationPromise = null
PromiseAfterDispose == "null"

\* lines 64-66 and createPackage: the package is activated
FlowInit ==
  /\ PathsIdle
  /\ RemoteIdle
  /\ HgIdle
  /\ ListIdle
  /\ gkPending = TRUE
  /\ lspGate \in BOOLEAN
  /\ disposedFlag = FALSE
  /\ activationPromise = "null"
  /\ activated = "none"
  /\ promiseState = "none"
  /\ thenWaiting = 0
  /\ microtasks = 0
  /\ activationDisposeCalls = 0
  /\ activationDisposed = FALSE
  /\ disposeCalls = 0
  /\ busySub = "none"
  /\ statusLog = <<>>
  /\ inner = [r \in Roots |-> 0]
  /\ messages = <<>>
  /\ frState = "none"
  /\ frDisposed = FALSE
  /\ frThenWaiting = 0
  /\ frMicrotasks = 0
  /\ commandRegistered = FALSE
  /\ contextMenuRegistered = FALSE

\* mutant: the callback does not look at _disposed
ReturnsEarlyNever(disposed) == FALSE

\* lines 69-71: if (this._disposed) return
ReturnsEarly(disposed) == disposed

\* lines 362-370: the disposable consumeFindReferencesView returned is disposed;
\* its function registers a then-callback on the promise, which is queued at
\* once if the promise is resolved
FindRefsDisposableDisposed ==
  /\ frDisposed' = TRUE
  /\ IF frState = "checking"
       THEN frThenWaiting' = frThenWaiting + 1 /\ UNCHANGED frMicrotasks
       ELSE frMicrotasks' = frMicrotasks + 1 /\ UNCHANGED frThenWaiting

\* lines 68-75: _onGKInitialized.  activateLsp awaits (line 149), so its promise is
\* pending when it returns; activateLegacy has no await, so its promise is settled.
GKInitialized ==
  /\ gkPending
  /\ gkPending' = FALSE
  /\ IF ReturnsEarly(disposedFlag)
       THEN UNCHANGED <<activationPromise, activated, promiseState>>
       ELSE /\ activationPromise' = "promise"
            /\ activated' = IF lspGate THEN "lsp" ELSE "legacy"
            /\ IF lspGate
                 THEN promiseState' = "pending"
                 ELSE promiseState' \in {"resolved", "rejected"}
  /\ UNCHANGED <<lspGate, disposedFlag, thenWaiting, microtasks, activationDisposeCalls,
                 activationDisposed, disposeCalls, busyVars, findRefsVars, nonFlowVars>>

\* lines 77-83: Activation.dispose()
ActivationDispose ==
  /\ disposeCalls < MaxDisposeCalls
  /\ disposeCalls' = disposeCalls + 1
  /\ disposedFlag' = TRUE
  /\ IF activationPromise # "null"
       THEN /\ thenWaiting' = IF promiseState = "pending" THEN thenWaiting + 1 ELSE thenWaiting
            /\ microtasks' = IF promiseState = "resolved" THEN microtasks + 1 ELSE microtasks
       ELSE UNCHANGED <<thenWaiting, microtasks>>
  /\ activationPromise' = PromiseAfterDispose
  /\ UNCHANGED <<gkPending, lspGate, activated, promiseState, activationDisposeCalls,
                 activationDisposed, busyVars, findRefsVars, nonFlowVars>>

\* lines 93-211: activateLsp returns its UniversalDisposable
ResolveActivation ==
  /\ promiseState = "pending"
  /\ promiseState' = "resolved"
  /\ microtasks' = microtasks + thenWaiting
  /\ thenWaiting' = 0
  /\ UNCHANGED <<gkPending, lspGate, disposedFlag, activationPromise, activated,
                 activationDisposeCalls, activationDisposed, disposeCalls, busyVars, findRefsVars, nonFlowVars>>

\* lines 93-211: activateLsp throws
RejectActivation ==
  /\ promiseState = "pending"
  /\ promiseState' = "rejected"
  /\ thenWaiting' = 0
  /\ UNCHANGED <<gkPending, lspGate, disposedFlag, activationPromise, activated, microtasks,
                 activationDisposeCalls, activationDisposed, disposeCalls, busyVars, findRefsVars, nonFlowVars>>

\* line 80: activation => activation.dispose().  Disposing the legacy activation
\* disposes the busy-signal consumer (lines 252-260), which unsubscribes (lines 356-359),
\* and the find-references consumer (lines 261-265) with the disposable it returned.
RunThenCallback ==
  /\ microtasks > 0
  /\ microtasks' = microtasks - 1
  /\ activationDisposeCalls' = activationDisposeCalls + 1
  /\ activationDisposed' = TRUE
  /\ IF ~activationDisposed /\ busySub = "active"
       THEN /\ busySub' = "unsubscribed"
            /\ messages' = DisposeAllInner(messages, inner)
            /\ inner' = [r \in Roots |-> 0]
       ELSE UNCHANGED <<busySub, messages, inner>>
  /\ IF ~activationDisposed /\ frState # "none" /\ ~frDisposed
       THEN FindRefsDisposableDisposed
       ELSE UNCHANGED <<frDisposed, frThenWaiting, frMicrotasks>>
  /\ UNCHANGED <<gkPending, lspGate, disposedFlag, activationPromise, activated, promiseState,
                 thenWaiting, disposeCalls, statusLog, frState, commandRegistered,
                 contextMenuRegistered, nonFlowVars>>

\* lines 252-260 and 342-355: the busy-signal service is provided to the legacy activation
ConsumeBusySignal ==
  /\ activated = "legacy"
  /\ promiseState = "resolved"
  /\ ~activationDisposed
  /\ busySub = "none"
  /\ busySub' = "active"
  /\ UNCHANGED <<activationVars, statusLog, inner, messages, findRefsVars, nonFlowVars>>

\* lines 306-337: a status update arrives.  The switchMap of the root's group tears
\* down the previous inner observable, then subscribes to the one of the new status.
StatusUpdate(root, status) ==
  /\ busySub = "active"
  /\ Len(statusLog) < MaxUpdates
  /\ statusLog' = Append(statusLog, [root |-> root, status |-> status])
  /\ LET cleared == DisposeMessage(messages, inner[root])
     IN IF IsBusyStatus(status)
          THEN /\ messages' = Append(cleared, [root |-> root,
                                               status |-> ReadableStatus(status),
                                               disposed |-> FALSE])
               /\ inner' = [inner EXCEPT ![root] = Len(messages) + 1]
          ELSE /\ messages' = cleared
               /\ inner' = [inner EXCEPT ![root] = 0]
  /\ UNCHANGED <<activationVars, busySub, findRefsVars, nonFlowVars>>

\* lines 306-337: the status stream completes; every group completes with it and
\* completingSwitchMap ends the inner observable of each
StatusComplete ==
  /\ busySub = "active"
  /\ busySub' = "completed"
  /\ messages' = DisposeAllInner(messages, inner)
  /\ inner' = [r \in Roots |-> 0]
  /\ UNCHANGED <<activationVars, statusLog, findRefsVars, nonFlowVars>>

\* lines 356-359: the provider of the service disposes the consumer
BusyUnsubscribe ==
  /\ busySub = "active"
  /\ busySub' = "unsubscribed"
  /\ messages' = DisposeAllInner(messages, inner)
  /\ inner' = [r \in Roots |-> 0]
  /\ UNCHANGED <<activationVars, statusLog, findRefsVars, nonFlowVars>>

\* lines 261-265 and 362-367: the find-references-view service is provided to
\* the legacy activation; registerMultiHopFindReferencesCommand runs up to its await
ConsumeFindReferencesView ==
  /\ activated = "legacy"
  /\ promiseState = "resolved"
  /\ ~activationDisposed
  /\ frState = "none"
  /\ frState' = "checking"
  /\ UNCHANGED <<activationVars, busyVars, frDisposed, frThenWaiting, frMicrotasks,
                 commandRegistered, contextMenuRegistered, nonFlowVars>>

\* lines 376-394: the gatekeeper check resolves.  If it passes, the context-menu
\* entry is added (the disposable contextMenu.add returns is dropped) and the
\* command is added, its disposable being what the promise resolves to; if
\* not, the promise resolves to an empty UniversalDisposable.
FindRefsCheckResolves(passes) ==
  /\ frState = "checking"
  /\ frState' = IF passes THEN "registered" ELSE "disabled"
  /\ contextMenuRegistered' = passes
  /\ commandRegistered' = passes
  /\ frMicrotasks' = frMicrotasks + frThenWaiting
  /\ frThenWaiting' = 0
  /\ UNCHANGED <<activationVars, busyVars, frDisposed, nonFlowVars>>

\* the provider of find-references-view goes away: the service hub disposes
\* the disposable consumeFindReferencesView returned
FindRefsDispose ==
  /\ frState # "none"
  /\ ~frDisposed
  /\ FindRefsDisposableDisposed
  /\ UNCHANGED <<activationVars, busyVars, frState, commandRegistered, contextMenuRegistered,
                 nonFlowVars>>

\* line 369: disposable => disposable.dispose(), on the disposable of the command
FindRefsRunThenCallback ==
  /\ frMicrotasks > 0
  /\ frMicrotasks' = frMicrotasks - 1
  /\ commandRegistered' = FALSE
  /\ UNCHANGED <<activationVars, busyVars, frState, frDisposed, frThenWaiting,
                 contextMenuRegistered, nonFlowVars>>

FindRefsCheckResolvesAny == \E passes \in BOOLEAN : FindRefsCheckResolves(passes)

FlowNext ==
  \/ GKInitialized
  \/ ActivationDispose
  \/ ResolveActivation
  \/ RejectActivation
  \/ RunThenCallback
  \/ ConsumeBusySignal
  \/ \E root \in Roots, status \in Statuses : StatusUpdate(root, status)
  \/ StatusComplete
  \/ BusyUnsubscribe
  \/ ConsumeFindReferencesView
  \/ FindRefsCheckResolvesAny
  \/ FindRefsDispose
  \/ FindRefsRunThenCallback

SpecFlow == FlowInit /\ [][FlowNext]_vars

-----------------------------------------------------------------------------
(* Properties of nuclide-flow *)

\* C5: if activateLsp or activateLegacy was started then, once dispose() has
\* been called, the activation promise has resolved and the callback given to
\* then() has run, the disposable the activation produced is disposed; its
\* dispose() is called at most once, however often Activation.dispose() is.
C5_TeardownOnce ==
  /\ activationDisposeCalls <= 1
  /\ (activated # "none" /\ disposeCalls >= 1 /\ promiseState = "resolved" /\ microtasks = 0)
       => (activationDisposeCalls = 1 /\ activationDisposed)

\* dispose() called twice while activateLsp was pending; the disposable disposed once
C5_Witness ==
  /\ activated = "lsp"
  /\ disposeCalls >= 2
  /\ promiseState = "resolved"
  /\ microtasks = 0
  /\ activationDisposeCalls = 1

MessageIds == 1..Len(messages)

\* the message is reported and not disposed
Outstanding(m) == ~messages[m].disposed

\* no message of the same root was reported after m
LatestOfRoot(m) ==
  \A n \in MessageIds : messages[n].root = messages[m].root => n <= m

\* C6: a busy message that is not disposed is the one reported for the last
\* status update of its root, under an active subscription: the next update of
\* the root, the completion of the stream and the unsubscription dispose it.
C6_MessagesCleared ==
  \A m \in MessageIds :
    Outstanding(m) =>
      /\ busySub = "active"
      /\ LatestOfRoot(m)
      /\ \/ LastStatus(statusLog, messages[m].root) = "init" /\ messages[m].status = "initializing"
         \/ LastStatus(statusLog, messages[m].root) = "busy" /\ messages[m].status = "busy"

\* a message disposed by the next update of its root, and the later one by
\* the end of the subscription
C6_Witness ==
  /\ busySub \in {"completed", "unsubscribed"}
  /\ \E m, n \in MessageIds :
       /\ m < n
       /\ messages[m].root = messages[n].root
       /\ messages[m].disposed
       /\ messages[n].disposed

OutstandingOf(root) == {m \in MessageIds : messages[m].root = root /\ Outstanding(m)}

BusyState ==
  busySub = "active" =>
    \A root \in Roots :
      /\ (OutstandingOf(root) # {}) <=> (LastStatus(statusLog, root) \in {"init", "busy"})
      /\ Cardinality(OutstandingOf(root)) <= 1

\* a step that delivers a status update leaves the messages of the other roots alone
BusyStep ==
  Len(statusLog') = Len(statusLog) + 1 =>
    \A m \in 1..Len(messages') :
      messages'[m].root # statusLog'[Len(statusLog')].root =>
        (m \in MessageIds /\ messages'[m] = messages[m])

\* C7: while the subscription is active a root has an outstanding busy message
\* exactly when its most recent update has status 'init' or 'busy'; a root has
\* at most one outstanding message; an update for a root neither reports nor
\* disposes a message of another root.
C7_OutstandingIffBusy == [](BusyState) /\ [][BusyStep]_vars

\* one root busy with its message outstanding, the other ready with its message disposed
C7_Witness ==
  /\ busySub = "active"
  /\ LastStatus(statusLog, "rootA") = "busy"
  /\ LastStatus(statusLog, "rootB") = "ready"
  /\ Cardinality(OutstandingOf("rootA")) = 1
  /\ \E m \in MessageIds : messages[m].root = "rootB" /\ messages[m].disposed

-----------------------------------------------------------------------------
(* RemoteProjectsService *)

\* most calls of _reloadFinished in a run
MaxReloads == 2

\* new ReplaySubject(1): the buffer size
ReplayBufferSize == 1

\* the callbacks given to waitForRemoteProjectReload
Callbacks == {"cb1", "cb2"}

\* the project lists passed to _reloadFinished
ProjectLists == { <<"projA">>, <<"projA", "projB">> }

Hosts == {"hostA", "hostB"}

Cwds == {"/cwdA", "/cwdB"}

\* values of promptReconnectOnFailure in the saved configuration
PromptValues == {"absent", "true", "false"}

RemoteConfigs ==
  [host : Hosts, path : Cwds, promptReconnectOnFailure : PromptValues]

\* what RemoteConnection.reconnect can yield
ReconnectOutcomes == {"null", "connSaved"}

\* what openConnectionDialog can yield
DialogOutcomes == {"null", "connDialog"}

\* ReplaySubject._trimBufferThenGetEvents: the last bufferSize values are kept
TrimBuffer(events) ==
  IF Len(events) > ReplayBufferSize
    THEN SubSeq(events, Len(events) - ReplayBufferSize + 1, Len(events))
    ELSE events

\* mutant: _reloadFinished does not complete the subject (line 34 left out)
StoppedAfterReloadKept == subjStopped

\* line 34: this._subject.complete()
StoppedAfterReload == TRUE

\* mutant: the default of promptReconnectOnFailure is false
PromptOrDefaultFalse(config) ==
  IF config.promptReconnectOnFailure = "absent" THEN "false"
  ELSE config.promptReconnectOnFailure

\* line 50: promptReconnectOnFailure = true when the configuration has none
PromptOrDefault(config) ==
  IF config.promptReconnectOnFailure = "absent" THEN "true"
  ELSE config.promptReconnectOnFailure

\* mutant: the dialog is opened with host and path exchanged
DialogOptionsSwapped(config) ==
  [initialServer |-> config.path, initialCwd |-> config.host]

\* lines 65-68: the options of the connection dialog
DialogOptions(config) ==
  [initialServer |-> config.host, initialCwd |-> config.path]

\* lines 24-26: the constructor
RemoteInit ==
  /\ PathsIdle
  /\ FlowIdle
  /\ HgIdle
  /\ ListIdle
  /\ subjEvents = <<>>
  /\ subjStopped = FALSE
  /\ observers = {}
  /\ cbState = [c \in Callbacks |-> "unregistered"]
  /\ invocations = [c \in Callbacks |-> <<>>]
  /\ reloadCalls = <<>>
  /\ cbRegAfter = [c \in Callbacks |-> -1]
  /\ cbDisposedAfter = [c \in Callbacks |-> -1]
  /\ svcDisposedAfter = -1
  /\ crcPc = "idle"
  /\ crcConfig = [host |-> "none", path |-> "none", promptReconnectOnFailure |-> "absent"]
  /\ reconnectArgs = <<>>
  /\ reconnectResult = "none"
  /\ dialogOpts = <<>>
  /\ dialogResult = "none"
  /\ crcReturn = "none"

\* lines 37-41: waitForRemoteProjectReload(callback).  ReplaySubject._subscribe adds
\* the subscriber unless the subject is stopped, replays the buffer to it, and
\* completes it when the subject is stopped.
WaitForRemoteProjectReload(c) ==
  /\ cbState[c] = "unregistered"
  /\ cbRegAfter' = [cbRegAfter EXCEPT ![c] = Len(reloadCalls)]
  /\ invocations' = [invocations EXCEPT ![c] = @ \o subjEvents]
  /\ IF subjStopped
       THEN /\ cbState' = [cbState EXCEPT ![c] = "closed"]
            /\ UNCHANGED observers
       ELSE /\ cbState' = [cbState EXCEPT ![c] = "subscribed"]
            /\ observers' = observers \cup {c}
  /\ UNCHANGED <<subjEvents, subjStopped, reloadCalls, cbDisposedAfter, svcDisposedAfter,
                 crcVars, nonRemoteVars>>

\* line 40: the UniversalDisposable returned for a callback is disposed
DisposeCallback(c) ==
  /\ cbState[c] \in {"subscribed", "closed"}
  /\ cbState' = [cbState EXCEPT ![c] = "disposed"]
  /\ observers' = observers \ {c}
  /\ cbDisposedAfter' = [cbDisposedAfter EXCEPT ![c] = Len(reloadCalls)]
  /\ UNCHANGED <<subjEvents, subjStopped, invocations, reloadCalls, cbRegAfter,
                 svcDisposedAfter, crcVars, nonRemoteVars>>

\* lines 32-35: _reloadFinished(projects).  ReplaySubject.next (rxjs 5) buffers the
\* value whether or not the subject is stopped, and delivers it to the observers
\* only when it is not; complete() stops the subject and completes the observers.
ReloadFinished(projects) ==
  /\ Len(reloadCalls) < MaxReloads
  /\ reloadCalls' = Append(reloadCalls, projects)
  /\ subjEvents' = TrimBuffer(Append(subjEvents, projects))
  /\ invocations' = [c \in Callbacks |->
                       IF ~subjStopped /\ c \in observers
                         THEN Append(invocations[c], projects)
                         ELSE invocations[c]]
  /\ subjStopped' = StoppedAfterReload
  /\ IF StoppedAfterReload
       THEN /\ observers' = {}
            /\ cbState' = [c \in Callbacks |->
                             IF c \in observers THEN "closed" ELSE cbState[c]]
       ELSE UNCHANGED <<observers, cbState>>
  /\ UNCHANGED <<cbRegAfter, cbDisposedAfter, svcDisposedAfter, crcVars, nonRemoteVars>>

\* lines 28-30: dispose()
ServiceDispose ==
  /\ svcDisposedAfter = -1
  /\ svcDisposedAfter' = Len(reloadCalls)
  /\ subjStopped' = TRUE
  /\ observers' = {}
  /\ cbState' = [c \in Callbacks |-> IF c \in observers THEN "closed" ELSE cbState[c]]
  /\ UNCHANGED <<subjEvents, invocations, reloadCalls, cbRegAfter, cbDisposedAfter,
                 crcVars, nonRemoteVars>>

\* lines 43-57: createRemoteConnection up to the await of RemoteConnection.reconnect
CreateRemoteConnection(config) ==
  /\ crcPc = "idle"
  /\ crcConfig' = config
  /\ reconnectArgs' = Append(reconnectArgs,
                             [host |-> config.host, path |-> config.path,
                              promptReconnectOnFailure |-> PromptOrDefault(config)])
  /\ crcPc' = "reconnecting"
  /\ UNCHANGED <<reconnectResult, dialogOpts, dialogResult, crcReturn, reloadVars,
                 nonRemoteVars>>

\* lines 58-68: reconnect has yielded; the connection or null is returned, or the
\* dialog is opened
ReconnectDone(connection) ==
  /\ crcPc = "reconnecting"
  /\ reconnectResult' = connection
  /\ IF connection # "null"
       THEN /\ crcReturn' = connection
            /\ crcPc' = "returned"
            /\ UNCHANGED dialogOpts
       ELSE IF PromptOrDefault(crcConfig) = "false"
         THEN /\ crcReturn' = "null"
              /\ crcPc' = "returned"
              /\ UNCHANGED dialogOpts
         ELSE /\ dialogOpts' = Append(dialogOpts, DialogOptions(crcConfig))
              /\ crcPc' = "dialog"
              /\ UNCHANGED crcReturn
  /\ UNCHANGED <<crcConfig, reconnectArgs, dialogResult, reloadVars, nonRemoteVars>>

\* line 52: reconnect rejects, and createRemoteConnection with it
ReconnectThrows ==
  /\ crcPc = "reconnecting"
  /\ crcPc' = "threw"
  /\ UNCHANGED <<crcConfig, reconnectArgs, reconnectResult, dialogOpts, dialogResult,
                 crcReturn, reloadVars, nonRemoteVars>>

\* line 65: the promise of the dialog settles the promise returned
DialogDone(connection) ==
  /\ crcPc = "dialog"
  /\ dialogResult' = connection
  /\ crcReturn' = connection
  /\ crcPc' = "returned"
  /\ UNCHANGED <<crcConfig, reconnectArgs, reconnectResult, dialogOpts, reloadVars,
                 nonRemoteVars>>

RemoteNext ==
  \/ \E c \in Callbacks : WaitForRemoteProjectReload(c)
  \/ \E c \in Callbacks : DisposeCallback(c)
  \/ \E projects \in ProjectLists : ReloadFinished(projects)
  \/ ServiceDispose
  \/ \E config \in RemoteConfigs : CreateRemoteConnection(config)
  \/ \E connection \in ReconnectOutcomes : ReconnectDone(connection)
  \/ ReconnectThrows
  \/ \E connection \in DialogOutcomes : DialogDone(connection)

SpecRemote == RemoteInit /\ [][RemoteNext]_vars

-----------------------------------------------------------------------------
(* Properties of RemoteProjectsService *)

DialogOpened == dialogOpts # <<>>

\* C8: reconnect is called first, with the host and path of the configuration;
\* the dialog is opened only after reconnect yielded no connection; a connection
\* yielded by reconnect is returned and the dialog is not opened; the dialog is
\* opened with initialServer = host and initialCwd = path, and what it yields is
\* what createRemoteConnection returns.
C8_ReconnectThenPrompt ==
  /\ crcPc # "idle" =>
       /\ Len(reconnectArgs) = 1
       /\ reconnectArgs[1].host = crcConfig.host
       /\ reconnectArgs[1].path = crcConfig.path
  /\ DialogOpened => reconnectResult = "null"
  /\ reconnectResult \notin {"none", "null"} =>
       (crcPc = "returned" /\ crcReturn = reconnectResult /\ ~DialogOpened)
  /\ DialogOpened =>
       /\ Len(dialogOpts) = 1
       /\ dialogOpts[1].initialServer = crcConfig.host
       /\ dialogOpts[1].initialCwd = crcConfig.path
  /\ (DialogOpened /\ crcPc = "returned") => crcReturn = dialogResult

\* reconnect yielded nothing, the dialog was opened and its connection returned
C8_Witness ==
  /\ crcPc = "returned"
  /\ reconnectResult = "null"
  /\ DialogOpened
  /\ crcReturn = "connDialog"

\* C9: when reconnect yields no connection and promptReconnectOnFailure is false,
\* null is returned and the dialog is not opened; when promptReconnectOnFailure
\* is absent the dialog is opened.
C9_NoPromptWhenDisabled ==
  /\ (reconnectResult = "null" /\ crcConfig.promptReconnectOnFailure = "false") =>
       (crcPc = "returned" /\ crcReturn = "null" /\ ~DialogOpened)
  /\ (reconnectResult = "null" /\ crcConfig.promptReconnectOnFailure = "absent") =>
       (DialogOpened /\ reconnectArgs[1].promptReconnectOnFailure = "true")

\* reconnect yielded nothing with promptReconnectOnFailure false: null is returned
C9_Witness ==
  /\ crcPc = "returned"
  /\ reconnectResult = "null"
  /\ crcConfig.promptReconnectOnFailure = "false"
  /\ crcReturn = "null"

Registered(c) == cbRegAfter[c] >= 0

Invoked(c) == invocations[c] # <<>>

\* the disposable of the callback was not disposed before the first _reloadFinished
NotDisposedFirst(c) == cbDisposedAfter[c] # 0

\* C10 as stated: a registered callback whose disposable was not disposed first
\* is invoked once _reloadFinished has been called, whether registered before or
\* after; it is invoked at most once, and only with the projects of the first
\* _reloadFinished call.
C10_Original ==
  \A c \in Callbacks :
    /\ Len(invocations[c]) <= 1
    /\ Invoked(c) => invocations[c][1] = reloadCalls[1]
    /\ (Registered(c) /\ Len(reloadCalls) >= 1 /\ (cbRegAfter[c] = 0 => NotDisposedFirst(c)))
         => Invoked(c)

\* C10 amended: a callback is invoked at most once.  Registered after one or
\* more _reloadFinished calls it is invoked, with the projects of the most
\* recent of them.  Registered before the first _reloadFinished call it is
\* invoked with the projects of that call, provided neither its disposable nor
\* the service was disposed before that call.
C10_ReplayedOnce ==
  \A c \in Callbacks :
    /\ Len(invocations[c]) <= 1
    /\ Invoked(c) =>
         invocations[c][1] = reloadCalls[IF cbRegAfter[c] >= 1 THEN cbRegAfter[c] ELSE 1]
    /\ cbRegAfter[c] >= 1 => Invoked(c)
    /\ (cbRegAfter[c] = 0 /\ Len(reloadCalls) >= 1 /\ NotDisposedFirst(c)
          /\ svcDisposedAfter # 0) => Invoked(c)
    /\ Invoked(c) => Registered(c)

\* one callback registered before the first call and invoked with its projects,
\* one registered after a second call and invoked with the projects of the second
C10_Witness ==
  /\ Len(reloadCalls) = 2
  /\ reloadCalls[1] # reloadCalls[2]
  /\ cbRegAfter["cb1"] = 0
  /\ invocations["cb1"] = <<reloadCalls[1]>>
  /\ cbRegAfter["cb2"] = 2
  /\ invocations["cb2"] = <<reloadCalls[2]>>

-----------------------------------------------------------------------------
(* HgRepositorySubscriptions: the conflict state.  HgService itself is not  *)
(* among the sources; _checkConflictChange is modelled from the             *)
(* merge-conflict status reconciliation the tests describe.                 *)

\* bound: the calls of _checkConflictChange
MaxChecks == 3

\* the test's stand-in for _checkMergeDirectoryExists returns the flag
CheckMergeDirectoryExists == mergeDirectoryExists

\* mutant: the conflict state is left only when no file has a conflict
IsInConflictSticky(previous, existed, conflicted) ==
  existed \/ (previous /\ conflicted)

\* the value _checkConflictChange stores in _isInConflict
IsInConflictAfter(previous, existed, conflicted) == existed

\* a new HgRepositorySubscriptions, the merge directory absent as in beforeEach
HgConflictInit ==
  /\ PathsIdle
  /\ FlowIdle
  /\ RemoteIdle
  /\ ListIdle
  /\ HgLockIdle
  /\ HgFetchIdle
  /\ HgCommitIdle
  /\ mergeDirectoryExists = FALSE
  /\ conflictedFiles \in BOOLEAN
  /\ isInConflict = FALSE
  /\ checks = <<>>
  /\ lastCheck = 0

\* the repository changes: the merge directory appears or goes away
SetMergeDirectory(exists) ==
  /\ mergeDirectoryExists # exists
  /\ mergeDirectoryExists' = exists
  /\ UNCHANGED <<conflictedFiles, isInConflict, checks, lastCheck, nonHgConflictVars>>

\* the repository changes: files get into or out of conflict
SetConflictedFiles(conflicted) ==
  /\ conflictedFiles # conflicted
  /\ conflictedFiles' = conflicted
  /\ UNCHANGED <<mergeDirectoryExists, isInConflict, checks, lastCheck, nonHgConflictVars>>

\* _checkConflictChange up to its await: the merge directory is looked up
CheckConflictChangeBegin ==
  /\ Len(checks) < MaxChecks
  /\ checks' = Append(checks, [existed |-> CheckMergeDirectoryExists, done |-> FALSE])
  /\ UNCHANGED <<mergeDirectoryExists, conflictedFiles, isInConflict, lastCheck,
                 nonHgConflictVars>>

\* _checkConflictChange after its await: the state is stored, the call completes
CheckConflictChangeEnd(i) ==
  /\ i \in 1..Len(checks)
  /\ ~checks[i].done
  /\ isInConflict' = IsInConflictAfter(isInConflict, checks[i].existed, conflictedFiles)
  /\ checks' = [checks EXCEPT ![i].done = TRUE]
  /\ lastCheck' = i
  /\ UNCHANGED <<mergeDirectoryExists, conflictedFiles, nonHgConflictVars>>

SetMergeDirectoryAny == \E exists \in BOOLEAN : SetMergeDirectory(exists)

SetConflictedFilesAny == \E conflicted \in BOOLEAN : SetConflictedFiles(conflicted)

CheckConflictChangeEndAny == \E i \in 1..MaxChecks : CheckConflictChangeEnd(i)

HgConflictNext ==
  \/ SetMergeDirectoryAny
  \/ SetConflictedFilesAny
  \/ CheckConflictChangeBegin
  \/ CheckConflictChangeEndAny

SpecHgConflict == HgConflictInit /\ [][HgConflictNext]_vars

\* C11: after every completed call of _checkConflictChange, _isInConflict is
\* true exactly if the merge directory existed when that call looked it up,
\* whatever _isInConflict was before and whether or not a file is in conflict;
\* so it is false again after a check that found the directory removed.
C11_ConflictIffMergeDirectory ==
  [][\A i \in 1..MaxChecks :
       CheckConflictChangeEnd(i) =>
         /\ isInConflict' = checks[i].existed
         /\ (~checks[i].existed => ~isInConflict')]_vars

\* a check saw the merge directory and set the state; a later check found it
\* removed and the state is false again, files still being in conflict
C11_Witness ==
  /\ Len(checks) >= 2
  /\ checks[1].done /\ checks[1].existed
  /\ checks[2].done /\ ~checks[2].existed
  /\ lastCheck = 2
  /\ conflictedFiles
  /\ ~isInConflict

-----------------------------------------------------------------------------
(* HgRepositorySubscriptions: observeLockFilesDidChange and dispose.  The   *)
(* test replaces _lockFilesDidChange by a Subject, subscribes with          *)
(* refCount().toArray().toPromise(), emits, disposes and emits again.  The  *)
(* observable is the subject taken until dispose, published.                *)

\* bound: the values emitted on the subject
MaxLockEvents == 3

\* the maps the test emits (m1, m2)
LockMaps == {"m1", "m2"}

\* the subscribers of observables obtained from observeLockFilesDidChange
LockObservers == {"o1", "o2"}

\* mutant: the observable is not cut off at dispose
TakesNextAlways(state) == state # "none"

\* a Subject delivers a value to the subscribers it still has
TakesNext(state) == state = "subscribed"

\* a new HgRepositorySubscriptions whose _lockFilesDidChange is the test's subject
HgLockInit ==
  /\ PathsIdle
  /\ FlowIdle
  /\ RemoteIdle
  /\ ListIdle
  /\ HgConflictIdle
  /\ HgFetchIdle
  /\ HgCommitIdle
  /\ lockEvents = <<>>
  /\ hgDisposedAt = -1
  /\ lockObs = [o \in LockObservers |-> [state |-> "none", since |-> 0, received |-> <<>>]]

\* observeLockFilesDidChange().refCount() is subscribed: the subscriber joins
\* the subject now; after dispose the observable completes at once
ObserveLockFilesDidChange(o) ==
  /\ lockObs[o].state = "none"
  /\ lockObs' = [lockObs EXCEPT ![o] =
                   [state |-> IF hgDisposedAt = -1 THEN "subscribed" ELSE "completed",
                    since |-> Len(lockEvents),
                    received |-> <<>>]]
  /\ UNCHANGED <<lockEvents, hgDisposedAt, nonHgLockVars>>

\* subject.next(m)
LockFilesDidChange(m) ==
  /\ Len(lockEvents) < MaxLockEvents
  /\ lockEvents' = Append(lockEvents, m)
  /\ lockObs' = [o \in LockObservers |->
                   IF TakesNext(lockObs[o].state)
                     THEN [lockObs[o] EXCEPT !.received = Append(@, m)]
                     ELSE lockObs[o]]
  /\ UNCHANGED <<hgDisposedAt, nonHgLockVars>>

\* HgRepositorySubscriptions.dispose(): the dispose observer fires and every
\* observable taken until it completes
HgSubscriptionsDispose ==
  /\ hgDisposedAt = -1
  /\ hgDisposedAt' = Len(lockEvents)
  /\ lockObs' = [o \in LockObservers |->
                   IF lockObs[o].state = "subscribed"
                     THEN [lockObs[o] EXCEPT !.state = "completed"]
                     ELSE lockObs[o]]
  /\ UNCHANGED <<lockEvents, nonHgLockVars>>

ObserveLockFilesDidChangeAny == \E o \in LockObservers : ObserveLockFilesDidChange(o)

LockFilesDidChangeAny == \E m \in LockMaps : LockFilesDidChange(m)

HgLockNext ==
  \/ ObserveLockFilesDidChangeAny
  \/ LockFilesDidChangeAny
  \/ HgSubscriptionsDispose

SpecHgLock == HgLockInit /\ [][HgLockNext]_vars

\* the subscribers there are
Subscribers == {o \in LockObservers : lockObs[o].state # "none"}

\* the events emitted from position a + 1 to position b
EventsBetween(a, b) == [k \in 1..(IF b > a THEN b - a ELSE 0) |-> lockEvents[a + k]]

-----------------------------------------------------------------------------
(* HgService.fetchMergeConflicts.  The test feeds it mockOutput through     *)
(* hgRunCommand and reads the status of each enriched conflict; the         *)
(* classification compares the existence flags of the local and other side. *)

\* bound: the conflict records in the hg output
MaxConflicts == 2

\* the paths of the conflict records in mockOutput
ConflictPaths == {"temp1", "temp2"}

\* the commands in progress the hg output names; "null" when there is none
HgCommandNames == {"rebase", "merge"}

\* hg-constants: MergeConflictStatus
MergeConflictStatus == {"BOTH_CHANGED", "DELETED_IN_THEIRS", "DELETED_IN_OURS", "RESOLVED"}

\* a conflict record of the output: the path and the exists flags of its sides
ConflictRecords ==
  [path : ConflictPaths, base : BOOLEAN, local : BOOLEAN, other : BOOLEAN]

\* the outputs hg gives: no command in progress and no conflicts, or a command
\* with its conflict records
HgOutputs ==
  {[command |-> "null", conflicts |-> <<>>]} \cup
  [command : HgCommandNames,
   conflicts : UNION {[1..n -> ConflictRecords] : n \in 0..MaxConflicts}]

\* mutant: the two deleted statuses are taken for each other
ClassifySwapped(local, other) ==
  IF local /\ other THEN "BOTH_CHANGED"
  ELSE IF local THEN "DELETED_IN_OURS"
  ELSE "DELETED_IN_THEIRS"

\* the status of a conflict, from the exists flags of its local and other side
Classify(local, other) ==
  IF local /\ other THEN "BOTH_CHANGED"
  ELSE IF local THEN "DELETED_IN_THEIRS"
  ELSE "DELETED_IN_OURS"

\* the conflict record with its status added
Enrich(conflict) ==
  [path |-> conflict.path, base |-> conflict.base, local |-> conflict.local,
   other |-> conflict.other, status |-> Classify(conflict.local, conflict.other)]

\* the output hg is going to print (mockOutput in the test), nothing fetched yet
HgFetchInit ==
  /\ PathsIdle
  /\ FlowIdle
  /\ RemoteIdle
  /\ ListIdle
  /\ HgConflictIdle
  /\ HgLockIdle
  /\ HgCommitIdle
  /\ hgOutput \in HgOutputs
  /\ mergeConflicts = [called |-> FALSE, isNull |-> FALSE, conflicts |-> <<>>]

\* fetchMergeConflicts(workingDirectory), subscribed: the output of hg is
\* parsed and its records are enriched in order; null when no command is in
\* progress
FetchMergeConflicts ==
  /\ ~mergeConflicts.called
  /\ mergeConflicts' =
       IF hgOutput.command = "null"
         THEN [called |-> TRUE, isNull |-> TRUE, conflicts |-> <<>>]
         ELSE [called |-> TRUE, isNull |-> FALSE,
               conflicts |-> [i \in 1..Len(hgOutput.conflicts) |->
                                Enrich(hgOutput.conflicts[i])]]
  /\ UNCHANGED <<hgOutput, nonHgFetchVars>>

HgFetchNext == FetchMergeConflicts

SpecHgFetch == HgFetchInit /\ [][HgFetchNext]_vars

\* C13: fetchMergeConflicts yields one enriched conflict per conflict record of
\* the hg output, in the same order; a record whose local and other side both
\* exist is BOTH_CHANGED, one whose local side does not exist while the other
\* does is DELETED_IN_OURS; every status is a member of MergeConflictStatus.
C13_ConflictsClassified ==
  mergeConflicts.called =>
    /\ Len(mergeConflicts.conflicts) = Len(hgOutput.conflicts)
    /\ \A i \in 1..Len(hgOutput.conflicts) :
         LET record == hgOutput.conflicts[i]
             enriched == mergeConflicts.conflicts[i]
         IN /\ enriched.path = record.path
            /\ enriched.base = record.base
            /\ enriched.local = record.local
            /\ enriched.other = record.other
            /\ (record.local /\ record.other => enriched.status = "BOTH_CHANGED")
            /\ (~record.local /\ record.other => enriched.status = "DELETED_IN_OURS")
            /\ enriched.status \in
                 {"BOTH_CHANGED", "DELETED_IN_THEIRS", "DELETED_IN_OURS", "RESOLVED"}

\* the run of the test: two records, both sides existing in the first, only
\* the other side in the second
C13_Witness ==
  /\ mergeConflicts.called
  /\ hgOutput.command = "rebase"
  /\ Len(hgOutput.conflicts) = 2
  /\ hgOutput.conflicts[1] = [path |-> "temp1", base |-> TRUE, local |-> TRUE, other |-> TRUE]
  /\ hgOutput.conflicts[2] = [path |-> "temp2", base |-> FALSE, local |-> FALSE, other |-> TRUE]
  /\ mergeConflicts.conflicts[1].status = "BOTH_CHANGED"
  /\ mergeConflicts.conflicts[2].status = "DELETED_IN_OURS"

-----------------------------------------------------------------------------
(* HgService.commit and HgService.amend.  The test replaces                 *)
(* hgObserveExecution by a fake that compares the argument list it is given *)
(* with the expected one.                                                   *)

\* bound: the calls of commit and amend
MaxCommands == 2

\* the commit messages; "null" stands for the null message amend accepts
CommitMessages == {"foo", "bar"}

\* hg-constants: AmendMode
AmendModes == {"Clean", "Rebase", "Fixup"}

\* mutant: the flags of Rebase and Fixup are taken for each other
AmendModeArgsSwapped(mode) ==
  CASE mode = "Clean" -> <<>>
    [] mode = "Rebase" -> <<"--fixup">>
    [] mode = "Fixup" -> <<"--rebase">>

\* the flag amend adds for its mode
AmendModeArgs(mode) ==
  CASE mode = "Clean" -> <<>>
    [] mode = "Rebase" -> <<"--rebase">>
    [] mode = "Fixup" -> <<"--fixup">>

\* the message is passed with -m unless it is null
MessageArgs(message) == IF message = "null" THEN <<>> ELSE <<"-m", message>>

\* nothing committed yet
HgCommitInit ==
  /\ PathsIdle
  /\ FlowIdle
  /\ RemoteIdle
  /\ ListIdle
  /\ HgConflictIdle
  /\ HgLockIdle
  /\ HgFetchIdle
  /\ hgCalls = <<>>
  /\ hgCommands = <<>>

\* commit(workingDirectory, message).refCount(), subscribed
Commit(message) ==
  /\ Len(hgCalls) < MaxCommands
  /\ hgCalls' = Append(hgCalls, [op |-> "commit", message |-> message, mode |-> "none"])
  /\ hgCommands' = Append(hgCommands, <<"commit">> \o MessageArgs(message))
  /\ UNCHANGED nonHgCommitVars

\* amend(workingDirectory, message, amendMode).refCount(), subscribed
Amend(message, mode) ==
  /\ Len(hgCalls) < MaxCommands
  /\ hgCalls' = Append(hgCalls, [op |-> "amend", message |-> message, mode |-> mode])
  /\ hgCommands' = Append(hgCommands,
                          <<"amend">> \o AmendModeArgs(mode) \o MessageArgs(message))
  /\ UNCHANGED nonHgCommitVars

CommitAny == \E message \in CommitMessages : Commit(message)

AmendAny == \E message \in CommitMessages \cup {"null"}, mode \in AmendModes : Amend(message, mode)

HgCommitNext == CommitAny \/ AmendAny

SpecHgCommit == HgCommitInit /\ [][HgCommitNext]_vars

\* the argument list C14 states for a call
ExpectedArgs(call) ==
  IF call.op = "commit" THEN <<"commit", "-m", call.message>>
  ELSE LET flag == IF call.mode = "Rebase" THEN <<"--rebase">>
                   ELSE IF call.mode = "Fixup" THEN <<"--fixup">>
                   ELSE <<>>
       IN IF call.message = "null" THEN <<"amend">> \o flag
          ELSE <<"amend">> \o flag \o <<"-m", call.message>>

\* C14: every call of amend runs exactly one hg command, with the arguments
\* 'amend', then '--rebase' for REBASE, '--fixup' for FIXUP, nothing for
\* CLEAN, then '-m' and the message exactly if the message is not null; every
\* call of commit runs exactly ['commit', '-m', message].
C14_CommitAmendArgs ==
  /\ Len(hgCommands) = Len(hgCalls)
  /\ \A i \in 1..Len(hgCalls) : hgCommands[i] = ExpectedArgs(hgCalls[i])

\* the calls of two of the tests: amend with --rebase and a message, then
\* amend with --fixup and no message
C14_Witness ==
  /\ Len(hgCalls) = 2
  /\ hgCalls[1] = [op |-> "amend", message |-> "foo", mode |-> "Rebase"]
  /\ hgCommands[1] = <<"amend", "--rebase", "-m", "foo">>
  /\ hgCalls[2] = [op |-> "amend", message |-> "null", mode |-> "Fixup"]
  /\ hgCommands[2] = <<"amend", "--fixup">>

-----------------------------------------------------------------------------
(* ChangedFilesList: the component's props, state and render *)

\* line 91
FILE_CHANGES_INITIAL_PAGE_SIZE == 100

\* bound: the largest number of keys of fileStatuses
MaxFiles == 201

\* the letters file names are made of, in the order localeCompare gives them
Letters ==
  <<"a", "b", "c", "d", "e", "f", "g", "h", "i", "j", "k", "l", "m",
    "n", "o", "p", "q", "r", "s", "t", "u", "v", "w", "x", "y", "z">>

LetterRank == [c \in {Letters[k] : k \in 1..Len(Letters)} |->
                 CHOOSE k \in 1..Len(Letters) : Letters[k] = c]

\* a two-letter file name
FileName(k) == <<Letters[(k \div 26) + 1], Letters[(k % 26) + 1]>>

\* the i-th file of a large repository: files 2k-1 and 2k have the same name,
\* in the directories /r/a and /r/b; the names are not in alphabetical order
GeneratedFile(i) ==
  <<"/", "r", "/", IF i % 2 = 1 THEN "a" ELSE "b", "/">>
    \o FileName((((i + 1) \div 2) * 37) % 103)

\* an array with its elements evaluated
ToArray(f) == SubSeq(f, 1, Len(f))

GeneratedFiles(n) == ToArray([i \in 1..n |-> GeneratedFile(i)])

\* the sizes of the large maps: one page, one key more, and up to the bound
LargeSizes ==
  {FILE_CHANGES_INITIAL_PAGE_SIZE, FILE_CHANGES_INITIAL_PAGE_SIZE + 1, MaxFiles}

\* the key lists fileStatuses is drawn from
FileStatusesPool ==
  { <<>>,
    << <<"/", "r", "/", "b">> >>,                                     \* /r/b
    << <<"/", "a", "/", "b">>, <<"/", "c", "/", "a", "/", "b">> >>,   \* /a/b, /c/a/b
    << <<"/", "r", "/", "b", "/", "c">>,                              \* /r/b/c
       <<"/", "r", "/", "d", "/", "c">>,                              \* /r/d/c
       <<"/", "r", "/", "a">> >>,                                     \* /r/a
    << <<"/", "a", "/", "b", "/", "c", "/", "d">>,                    \* /a/b/c/d
       <<"/", "x", "/", "a", "/", "b", "/", "c", "/", "d">> >>,       \* /x/a/b/c/d
    << <<"/", "w", "/", "a", "/", "b", "/", "c", "/", "d", "/", "e">>,   \* /w/a/b/c/d/e
       <<"/", "w", "/", "x", "/", "w", "/", "a", "/", "b", "/", "c", "/", "d", "/", "e">> >> }
  \cup {GeneratedFiles(n) : n \in LargeSizes}

\* the largest visiblePagesCount a 'show more' control can lead to
MaxPagesCount ==
  (MaxFiles + FILE_CHANGES_INITIAL_PAGE_SIZE - 1) \div FILE_CHANGES_INITIAL_PAGE_SIZE

\* does the sequence contain the element
Contains(seq, x) == \E k \in 1..Len(seq) : seq[k] = x

\* lines 56-63: seenCount, here per entry to process the count of its key
SeenCounts(dps, proc) ==
  LET keys == ToArray([k \in 1..Len(proc) |-> SeenKey(dps[proc[k]])])
  IN ToArray([k \in 1..Len(proc) |->
                Cardinality({j \in 1..Len(proc) : keys[j] = keys[k]})])

\* lines 69-75: an entry whose key was seen count times is marked done or
\* extended by one segment
StepCounted(dp, count) ==
  IF count = 1 \/ dp.depth = Len(dp.pathParts)
    THEN [dp EXCEPT !.done = TRUE]
    ELSE [dp EXCEPT !.depth = @ + 1]

\* lines 56-76 for every entry to process, the others left as they are
StepAll(dps, proc) ==
  LET counts == SeenCounts(dps, proc)
  IN ToArray([i \in 1..Len(dps) |->
                IF Contains(proc, i)
                  THEN StepCounted(dps[i], counts[CHOOSE k \in 1..Len(proc) : proc[k] = i])
                  ELSE dps[i]])

\* lines 83-88
DisplayStrings(dps) ==
  ToArray([i \in 1..Len(dps) |-> DisplayAt(dps[i], dps[i].depth)])

\* lines 41-49
InitialDisplayPaths(paths) ==
  ToArray([i \in 1..Len(paths) |-> InitialDisplayPath(paths[i])])

RECURSIVE FilterRange(_, _, _, _)
\* line 78 for the entries lo..hi of a long toProcess, halving the range
FilterRange(dps, proc, lo, hi) ==
  IF lo > hi THEN <<>>
  ELSE IF lo = hi THEN (IF dps[proc[lo]].done THEN <<>> ELSE <<proc[lo]>>)
  ELSE LET mid == (lo + hi) \div 2
       IN FilterRange(dps, proc, lo, mid) \o FilterRange(dps, proc, mid + 1, hi)

RECURSIVE ComputeLoop(_, _, _, _)
\* lines 54-88: the while loop and the return
ComputeLoop(dps, proc, depth, max) ==
  IF depth < max /\ Len(proc) > 0
    THEN LET next == StepAll(dps, proc)
         IN ComputeLoop(next, FilterRange(next, proc, 1, Len(proc)), depth + 1, max)
    ELSE DisplayStrings(dps)

\* lines 37-89: computeDisplayPaths(filePaths, maxDepth) as render calls it
computeDisplayPaths(paths, max) ==
  ComputeLoop(InitialDisplayPaths(paths), ToArray([i \in 1..Len(paths) |-> i]), 1, max)

\* nuclideUri.basename: the last segment of the path
basename(path) ==
  LET parts == Split(path, pathSeparatorFor(path)) IN parts[Len(parts)]

RECURSIVE ComesBefore(_, _)
\* a.localeCompare(b) < 0, for names made of Letters
ComesBefore(a, b) ==
  IF b = <<>> THEN FALSE
  ELSE IF a = <<>> THEN TRUE
  ELSE IF LetterRank[Head(a)] # LetterRank[Head(b)]
    THEN LetterRank[Head(a)] < LetterRank[Head(b)]
  ELSE ComesBefore(Tail(a), Tail(b))

\* line 157: FILE_CHANGES_INITIAL_PAGE_SIZE * this.state.visiblePagesCount
FilesToShow(pages) == FILE_CHANGES_INITIAL_PAGE_SIZE * pages

\* mutant: each change gets the display path at the place it is sorted to
DisplayPathByPosition(paths, index, position) == paths[position]

\* line 165: displayPath: displayPaths[index], index being the place in filePaths
DisplayPathOf(paths, index, position) == paths[index]

\* lines 170-174: the place sort gives the change of index i: behind the
\* changes whose basename comes before its own, and behind the earlier changes
\* of the same basename
SortPosition(names, i) ==
  Cardinality({j \in 1..Len(names) :
                 \/ ComesBefore(names[j], names[i])
                 \/ names[j] = names[i] /\ j < i}) + 1

\* lines 157-158: the keys render passes to computeDisplayPaths
ShownFilePaths(files, pages) == Slice(files, FilesToShow(pages))

\* the arrays of keys render can be passing
ShownPool ==
  {ShownFilePaths(files, pages) : files \in FileStatusesPool, pages \in 1..MaxPagesCount}

\* line 159: computeDisplayPaths(filePaths), computed once per array
DisplayPathsTable ==
  [shown \in ShownPool |-> computeDisplayPaths(shown, DefaultMaxDepth)]

\* lines 160-174: sizeLimitedFileChanges, the rows of the render
SizeLimitedFileChanges(shown) ==
  LET names == ToArray([i \in 1..Len(shown) |-> basename(shown[i])])
      positions == ToArray([i \in 1..Len(shown) |-> SortPosition(names, i)])
  IN [position \in 1..Len(shown) |->
        LET index == CHOOSE i \in 1..Len(shown) : positions[i] = position
        IN [filePath |-> shown[index],
            displayPath |-> DisplayPathOf(DisplayPathsTable[shown], index, position)]]

\* the rows for every array of keys, computed once per array
FileChangesTable == [shown \in ShownPool |-> SizeLimitedFileChanges(shown)]

\* mutant: the control is shown also when the last page is exactly full
HasMoreFilesInclusive(size, filesToShow) == size >= filesToShow

\* line 182: fileStatuses.size > filesToShow
HasMoreFiles(size, filesToShow) == size > filesToShow

\* lines 133-216: render()
Render(files, hide, pages) ==
  IF Len(files) = 0 /\ hide
    THEN [suppressed |-> TRUE, rows |-> <<>>, showMore |-> FALSE]
    ELSE [suppressed |-> FALSE,
          rows |-> FileChangesTable[ShownFilePaths(files, pages)],
          showMore |-> HasMoreFiles(Len(files), FilesToShow(pages))]

\* lines 125-131 and the first render: the component is mounted
ListInit ==
  /\ PathsIdle
  /\ FlowIdle
  /\ RemoteIdle
  /\ HgIdle
  /\ fileStatuses \in FileStatusesPool
  /\ hideEmptyFolders \in BOOLEAN
  /\ shouldShowFolderName \in BOOLEAN
  /\ isCollapsed = FALSE
  /\ visiblePagesCount = 1
  /\ rendered = Render(fileStatuses, hideEmptyFolders, 1)
  /\ lastEvent = "mount"
  /\ propsChanged = FALSE

\* mutant: a click shows two more pages
PagesAfterShowMoreTwo(pages) == pages + 2

\* line 192: visiblePagesCount: this.state.visiblePagesCount + 1
PagesAfterShowMore(pages) == pages + 1

\* lines 190-194: a click on the 'show more files' control, and the render
\* the setState brings about
ShowMoreFiles ==
  /\ rendered.showMore
  /\ visiblePagesCount' = PagesAfterShowMore(visiblePagesCount)
  /\ rendered' = Render(fileStatuses, hideEmptyFolders, visiblePagesCount')
  /\ lastEvent' = "showMore"
  /\ UNCHANGED <<fileStatuses, hideEmptyFolders, shouldShowFolderName, isCollapsed,
                 propsChanged, nonListVars>>

\* lines 203-210: a click on the folder name, and the render the setState
\* brings about
ToggleCollapsed ==
  /\ ~rendered.suppressed
  /\ shouldShowFolderName
  /\ isCollapsed' = ~isCollapsed
  /\ rendered' = Render(fileStatuses, hideEmptyFolders, visiblePagesCount)
  /\ lastEvent' = "collapse"
  /\ UNCHANGED <<fileStatuses, hideEmptyFolders, shouldShowFolderName, visiblePagesCount,
                 propsChanged, nonListVars>>

\* the parent passes another fileStatuses: the component renders again with
\* the state it has
ReceiveProps(files) ==
  /\ files # fileStatuses
  /\ fileStatuses' = files
  /\ rendered' = Render(files, hideEmptyFolders, visiblePagesCount)
  /\ lastEvent' = "props"
  /\ propsChanged' = TRUE
  /\ UNCHANGED <<hideEmptyFolders, shouldShowFolderName, isCollapsed, visiblePagesCount,
                 nonListVars>>

ReceivePropsAny == \E files \in FileStatusesPool : ReceiveProps(files)

ListNext == ShowMoreFiles \/ ToggleCollapsed \/ ReceivePropsAny

SpecList == ListInit /\ [][ListNext]_vars

\* the keys of fileStatuses
Keys == {fileStatuses[k] : k \in 1..Len(fileStatuses)}

\* C15: a render is suppressed exactly when fileStatuses is empty and
\* hideEmptyFolders is set; in every other render the number of file rows is
\* min(fileStatuses.size, 100 * visiblePagesCount), every rendered file is a
\* key of fileStatuses and is rendered once, and the 'show more files' control
\* is rendered exactly if fileStatuses.size > 100 * visiblePagesCount.
C15_RowsAndShowMore ==
  /\ rendered.suppressed <=> (Len(fileStatuses) = 0 /\ hideEmptyFolders)
  /\ ~rendered.suppressed =>
       /\ Len(rendered.rows) = Min(Len(fileStatuses), 100 * visiblePagesCount)
       /\ \A k \in 1..Len(rendered.rows) : rendered.rows[k].filePath \in Keys
       /\ \A j, k \in 1..Len(rendered.rows) :
            rendered.rows[j].filePath = rendered.rows[k].filePath => j = k
       /\ rendered.showMore <=> Len(fileStatuses) > 100 * visiblePagesCount

\* two pages of a map of more than two pages are shown after one click: 200
\* rows and the control
C15_Witness ==
  /\ ~rendered.suppressed
  /\ Len(fileStatuses) > 200
  /\ visiblePagesCount = 2
  /\ Len(rendered.rows) = 200
  /\ rendered.showMore
  /\ lastEvent = "showMore"

\* the pages a map of n keys needs: max(1, ceil(n / 100))
PagesNeeded(n) == IF n <= 100 THEN 1 ELSE (n + 99) \div 100

\* visiblePagesCount is 1 at the mount; while fileStatuses stays what it was,
\* it is at most the pages the map needs, the control is there exactly while
\* it is less, and without the control every key is rendered
PagesState ==
  /\ lastEvent = "mount" => visiblePagesCount = 1 /\ ~isCollapsed
  /\ ~propsChanged =>
       /\ visiblePagesCount <= PagesNeeded(Len(fileStatuses))
       /\ rendered.showMore <=> visiblePagesCount < PagesNeeded(Len(fileStatuses))
       /\ ~rendered.suppressed /\ ~rendered.showMore =>
            Len(rendered.rows) = Len(fileStatuses)

\* visiblePagesCount changes by +1 and through 'show more' only; 'show more'
\* leaves isCollapsed alone and the folder name leaves visiblePagesCount alone
PagesStep ==
  /\ visiblePagesCount' # visiblePagesCount =>
       /\ visiblePagesCount' = visiblePagesCount + 1
       /\ rendered.showMore
       /\ lastEvent' = "showMore"
  /\ lastEvent' = "showMore" =>
       /\ visiblePagesCount' = visiblePagesCount + 1
       /\ isCollapsed' = isCollapsed
  /\ lastEvent' = "collapse" =>
       /\ visiblePagesCount' = visiblePagesCount
       /\ isCollapsed' = ~isCollapsed
  /\ isCollapsed' # isCollapsed => lastEvent' = "collapse"

\* C16: visiblePagesCount starts at 1, changes only by +1 and only by a click
\* on 'show more files', which leaves isCollapsed alone, as toggling the
\* collapsed state leaves visiblePagesCount alone; with fileStatuses fixed at n
\* keys it never exceeds max(1, ceil(n / 100)), each click adds a page while
\* the control is there, and when it is at that value all n files are rendered
\* and the control is gone.
C16_PagesGrowByClicks == [](PagesState) /\ [][PagesStep]_vars

\* 201 keys, two clicks with the list collapsed in between: three pages, all
\* files rendered, no control
C16_Witness ==
  /\ ~propsChanged
  /\ Len(fileStatuses) > 200
  /\ visiblePagesCount = 3
  /\ isCollapsed
  /\ lastEvent = "showMore"
  /\ Len(rendered.rows) = Len(fileStatuses)
  /\ ~rendered.showMore

\* s is the end of p
IsSuffix(s, p) ==
  /\ Len(s) <= Len(p)
  /\ SubSeq(p, Len(p) - Len(s) + 1, Len(p)) = s

\* s is p from the start of one of its segments on
IsSegmentSuffix(s, p) ==
  /\ IsSuffix(s, p)
  /\ Len(s) = Len(p) \/ p[Len(p) - Len(s)] = "/"

\* the suffixes of p that start behind one of its separators
ProperSegmentSuffixes(p) ==
  {SubSeq(p, k + 1, Len(p)) : k \in {j \in 1..Len(p) : p[j] = "/"}}

\* the parts splitting p at its separators gives, the empty one before a
\* leading separator included
PartCount(p) == Cardinality({j \in 1..Len(p) : p[j] = "/"}) + 1

\* the files of the rows
RenderedFiles == {rendered.rows[k].filePath : k \in 1..Len(rendered.rows)}

\* every proper suffix of p is also the suffix of another of the files
AllSuffixesShared(p, files) ==
  \A s \in ProperSegmentSuffixes(p) :
    \E q \in files : q # p /\ IsSegmentSuffix(s, q)

\* the place of a key in fileStatuses
IndexOfKey(p) == CHOOSE k \in 1..Len(fileStatuses) : fileStatuses[k] = p

\* one display path per file passed, each a whole-segment suffix of its file,
\* and each row has the display path returned at the place of its own file
SuffixOfOwnFile ==
  LET returned == DisplayPathsTable[Slice(fileStatuses, 100 * visiblePagesCount)]
  IN ~rendered.suppressed =>
       /\ Len(returned) = Len(rendered.rows)
       /\ \A k \in 1..Len(rendered.rows) :
            LET row == rendered.rows[k]
            IN /\ IsSegmentSuffix(row.displayPath, row.filePath)
               /\ row.displayPath = returned[IndexOfKey(row.filePath)]

\* C17 as stated: the display paths are as many as the paths, each a
\* whole-segment suffix of its own path; a path all of whose proper suffixes
\* are shared with another path is returned in full; each rendered file has
\* the display path computed from it, also after the sort by basename
C17_Original ==
  /\ SuffixOfOwnFile
  /\ LET files == RenderedFiles
     IN \A k \in 1..Len(rendered.rows) :
          LET row == rendered.rows[k]
          IN AllSuffixesShared(row.filePath, files) => row.displayPath = row.filePath

\* C17: the display paths are as many as the paths, each a whole-segment
\* suffix of its own path; a path all of whose proper suffixes are shared with
\* another path is returned in full if it has at most maxDepth (5) parts, and
\* cut to its last 5 parts if it has more; each rendered file has the display
\* path computed from it, also after the sort by basename
C17_SuffixOfOwnFile ==
  /\ SuffixOfOwnFile
  /\ LET files == RenderedFiles
     IN \A k \in 1..Len(rendered.rows) :
          LET row == rendered.rows[k]
          IN AllSuffixesShared(row.filePath, files) =>
               IF PartCount(row.filePath) <= 5
                 THEN row.displayPath = row.filePath
                 ELSE /\ PartCount(row.displayPath) = 5
                      /\ row.displayPath # row.filePath

\* the component is given /r/b/c, /r/d/c and /r/a: the sort puts /r/a first
\* and every row keeps the display path of its own file
C17_Witness ==
  /\ lastEvent = "props"
  /\ fileStatuses[1] = <<"/", "r", "/", "b", "/", "c">>
  /\ Len(rendered.rows) = 3
  /\ rendered.rows[1] = [filePath |-> <<"/", "r", "/", "a">>, displayPath |-> <<"a">>]
  /\ rendered.rows[2] = [filePath |-> <<"/", "r", "/", "b", "/", "c">>,
                         displayPath |-> <<"b", "/", "c">>]
  /\ rendered.rows[3] = [filePath |-> <<"/", "r", "/", "d", "/", "c">>,
                         displayPath |-> <<"d", "/", "c">>]

-----------------------------------------------------------------------------
(* Properties of the activation and of consumeFindReferencesView *)

\* C18: once dispose() has been called with no activation function invoked
\* (so before the gatekeeper callback fired), none is invoked afterwards; an
\* activation function is invoked at most once in a run, and it is
\* activateLsp exactly if the gate 'nuclide_flow_lsp' is enabled at that step.
C18_ActivationOnce ==
  [][/\ (disposedFlag /\ activated = "none" => activated' = "none")
     /\ (activated # "none" => activated' = activated)
     /\ (activated' # activated =>
           /\ gkPending /\ ~gkPending'
           /\ (activated' = "lsp" <=> lspGate)
           /\ (activated' = "legacy" <=> ~lspGate))]_vars

\* dispose() was called first, the gatekeeper callback fired afterwards and
\* invoked nothing
C18_Witness ==
  /\ disposeCalls >= 1
  /\ disposedFlag
  /\ ~gkPending
  /\ activated = "none"
  /\ activationPromise = "null"

\* C19: once the disposable consumeFindReferencesView returned is disposed and
\* the gatekeeper check and the callbacks waiting for it are through, neither
\* the command 'nuclide-flow:find-indirect-references' nor its context-menu
\* entry is registered, whether the disposal came before or after the check.
C19_RegistrationsRemoved ==
  (/\ frDisposed
   /\ frState \in {"registered", "disabled"}
   /\ frThenWaiting = 0
   /\ frMicrotasks = 0)
    => ~commandRegistered /\ ~contextMenuRegistered

====
